---- MODULE Spec2Model ----
(***************************************************************************)
(* A model of vcit (src/vcit/libvcit.py): the repository locator, the      *)
(* loose-object codec, the object classes and the KVLM parser/serializer.  *)
(*                                                                         *)
(* Bytes and str values are sequences of one-character strings; a path is  *)
(* the sequence of its components below the filesystem root; the           *)
(* filesystem is a function from the existing paths to their entries.      *)
(* A call's outcome is a record: [err |-> "none", val |-> v] for a return  *)
(* value, [err |-> e] for a raised exception.                              *)
(***************************************************************************)
EXTENDS Integers, Sequences, FiniteSets, TLC

VARIABLES
    fs,      \* the filesystem: path -> entry
    call,    \* the last operation invoked, with its arguments
    ret,     \* the outcome of that operation
    raw,     \* KVLM: the buffer handed to kvlm_parse
    kv,      \* KVLM: the outcome of kvlm_parse(raw)
    pc,      \* concurrent writers: the line each writer is at
    loc      \* concurrent writers: each writer's local variables

vars == <<fs, call, ret, raw, kv, pc, loc>>

(***************************************************************************)
(* Bounds of the model.                                                    *)
(***************************************************************************)
\* longest blob payload written through object_write / object_hash
MaxPayload == 2
\* most objects persisted in one behaviour
MaxWrites == 2
\* most key/value fields of a KVLM record
MaxFields == 2
\* most lines of one folded KVLM value
MaxLines == 2
\* largest length a stored header declares in the read specification
MaxDeclared == 11
\* hex digits of a digest that follow the two-digit directory prefix
RestLen == 1

(***************************************************************************)
(* Bytes.                                                                  *)
(***************************************************************************)
SP == " "
NL == "\n"
NUL == "\\0"

Digits == <<"0", "1", "2", "3", "4", "5", "6", "7", "8", "9">>
HexDigits == Digits \o <<"a", "b", "c", "d", "e", "f">>

OK(v) == [err |-> "none", val |-> v]
\* a call that returns None: an outcome without a value
RetNone == [err |-> "none"]
Raise(e) == [err |-> e]
IsOK(r) == r.err = "none"
HasVal(r) == r.err = "none" /\ "val" \in DOMAIN r

Max(a, b) == IF a >= b THEN a ELSE b
Min(a, b) == IF a <= b THEN a ELSE b

\* Python's normalisation of a slice or find bound against a length
Clamp(i, n) == IF i < 0 THEN Max(n + i, 0) ELSE Min(i, n)

\* bytes.find(c, start): the lowest 0-based index >= start holding c, else -1
Find(s, c, start) ==
    LET from == Clamp(start, Len(s))
        hits == {i \in from..(Len(s) - 1) : s[i + 1] = c}
    IN  IF hits = {} THEN -1 ELSE CHOOSE i \in hits : \A j \in hits : i <= j

\* s[i:j]
Slice(s, i, j) ==
    LET a == Clamp(i, Len(s))
        b == Clamp(j, Len(s))
    IN  IF a >= b THEN <<>> ELSE SubSeq(s, a + 1, b)

\* s[i:]
SliceFrom(s, i) == Slice(s, i, Len(s))

\* s[i]: a result, IndexError outside the sequence
At(s, i) ==
    IF i >= 0 /\ i < Len(s) THEN OK(s[i + 1])
    ELSE IF i < 0 /\ Len(s) + i >= 0 THEN OK(s[Len(s) + i + 1])
    ELSE Raise("IndexError")

\* bytes.replace(old, new) for a one- or two-byte old
RECURSIVE Replace(_, _, _)
Replace(s, old, new) ==
    IF Len(s) < Len(old) THEN s
    ELSE IF SubSeq(s, 1, Len(old)) = old
         THEN new \o Replace(SubSeq(s, Len(old) + 1, Len(s)), old, new)
         ELSE <<s[1]>> \o Replace(Tail(s), old, new)

\* str(n) for n >= 0
RECURSIVE DecStr(_)
DecStr(n) ==
    IF n < 10 THEN <<Digits[n + 1]>>
    ELSE DecStr(n \div 10) \o <<Digits[(n % 10) + 1]>>

IsDigit(c) == \E d \in 1..10 : Digits[d] = c
DigitVal(c) == (CHOOSE d \in 1..10 : Digits[d] = c) - 1

RECURSIVE DigitsVal(_)
DigitsVal(s) ==
    IF s = <<>> THEN 0
    ELSE 10 * DigitsVal(SubSeq(s, 1, Len(s) - 1)) + DigitVal(s[Len(s)])

IsSpace(c) == c \in {SP, NL}

RECURSIVE Strip(_)
Strip(s) ==
    IF s = <<>> THEN s
    ELSE IF IsSpace(s[1]) THEN Strip(Tail(s))
    ELSE IF IsSpace(s[Len(s)]) THEN Strip(SubSeq(s, 1, Len(s) - 1))
    ELSE s

\* int(text) once the surrounding whitespace is stripped: one leading sign,
\* then digits only
ParseStripped(t) ==
    IF t = <<>> THEN Raise("ValueError")
    ELSE IF t[1] \in {"+", "-"}
    THEN IF Len(t) = 1 \/ \E i \in 2..Len(t) : ~IsDigit(t[i]) THEN Raise("ValueError")
         ELSE IF t[1] = "-" THEN OK(0 - DigitsVal(Tail(t)))
         ELSE OK(DigitsVal(Tail(t)))
    ELSE IF \E i \in 1..Len(t) : ~IsDigit(t[i]) THEN Raise("ValueError")
    ELSE OK(DigitsVal(t))

\* int(text)
ParseInt(s) == ParseStripped(Strip(s))

\* a str of characters as one path component
RECURSIVE Str(_)
Str(s) == IF s = <<>> THEN "" ELSE s[1] \o Str(Tail(s))

(***************************************************************************)
(* The filesystem (os, os.path, open).                                     *)
(***************************************************************************)
Dir == [kind |-> "dir"]
File(d) == [kind |-> "file", data |-> d]

Exists(f, p) == p \in DOMAIN f
IsDir(f, p) == Exists(f, p) /\ f[p].kind = "dir"
IsFile(f, p) == Exists(f, p) /\ f[p].kind = "file"

Parent(p) == IF p = <<>> THEN p ELSE SubSeq(p, 1, Len(p) - 1)
Prefixes(p) == {SubSeq(p, 1, k) : k \in 0..Len(p)}
Listdir(f, p) == {q \in DOMAIN f : Len(q) = Len(p) + 1 /\ SubSeq(q, 1, Len(p)) = p}

Put(f, new, e) == [q \in DOMAIN f \cup new |-> IF q \in new THEN e ELSE f[q]]

\* os.makedirs(p): the missing ancestors are created, the leaf must be new
Makedirs(f, p) ==
    IF Exists(f, p) THEN [fs |-> f, err |-> "FileExistsError"]
    ELSE IF \E q \in Prefixes(p) : IsFile(f, q) THEN [fs |-> f, err |-> "NotADirectoryError"]
    ELSE [fs |-> Put(f, Prefixes(p) \ DOMAIN f, Dir), err |-> "none"]

\* open(p, 'w') on its own: the file is created or truncated
OpenTrunc(f, p, empty) ==
    IF IsDir(f, p) THEN [fs |-> f, err |-> "IsADirectoryError"]
    ELSE IF ~IsDir(f, Parent(p)) THEN [fs |-> f, err |-> "FileNotFoundError"]
    ELSE [fs |-> Put(f, {p}, File(empty)), err |-> "none"]

\* with open(p, 'w') as h: h.write(d)
WriteFile(f, p, d) == OpenTrunc(f, p, d)

(***************************************************************************)
(* The repository locator.                                                 *)
(***************************************************************************)
GitDirName == ".git"

\* repo=None, as cmd_hash_object passes without -w
NoRepo == [none |-> TRUE]
IsRepo(r) == "gitdir" \in DOMAIN r

repo_path(repo, path) == repo.gitdir \o path

\* the outcome of a call on the filesystem: [fs, err] made [fs, ret]
FsRet(m, val) == [fs |-> m.fs, ret |-> IF m.err = "none" THEN val ELSE Raise(m.err)]

repo_dir(f, repo, path, mkdir) ==
    IF Exists(f, repo_path(repo, path))
    THEN IF IsDir(f, repo_path(repo, path))
         THEN [fs |-> f, ret |-> OK(repo_path(repo, path))]
         ELSE [fs |-> f, ret |-> Raise("Not a directory")]
    ELSE IF mkdir
    THEN FsRet(Makedirs(f, repo_path(repo, path)), OK(repo_path(repo, path)))
    ELSE [fs |-> f, ret |-> RetNone]

\* line 70 and 71: d is the outcome of repo_dir
repo_file_of(repo, path, d) ==
    IF HasVal(d.ret) THEN [fs |-> d.fs, ret |-> OK(repo_path(repo, path))]
    ELSE IF IsOK(d.ret) THEN [fs |-> d.fs, ret |-> RetNone]
    ELSE d

repo_file(f, repo, path, mkdir) ==
    repo_file_of(repo, path, repo_dir(f, repo, Parent(path), mkdir))

\* configparser.ConfigParser(): no sections
EmptyConf == [sections |-> {}]

repo_default_config ==
    [sections |-> {"core"},
     core |-> [repositoryformatversion |-> <<"0">>,
               filemode |-> <<"f", "a", "l", "s", "e">>,
               bare |-> <<"f", "a", "l", "s", "e">>]]

\* conf.read([cf]): a name that cannot be opened as a file is skipped
ConfRead(f, cf) == IF IsFile(f, cf) THEN f[cf].data ELSE EmptyConf

\* int(conf.get('core', 'repositoryformatversion'))
ConfGetVersion(conf) ==
    IF "core" \in conf.sections THEN ParseInt(conf.core.repositoryformatversion)
    ELSE Raise("NoSectionError")

Handle(path, conf) == [worktree |-> path, gitdir |-> path \o <<GitDirName>>, conf |-> conf]

\* lines 54 to 57: vers is the outcome of line 55
GitRepository_version(path, conf, vers) ==
    IF ~IsOK(vers) THEN vers
    ELSE IF vers.val # 0 THEN Raise("Unsupported repositoryformatversion")
    ELSE OK(Handle(path, conf))

\* lines 49 to 57: cf is the outcome of repo_file(self, 'config')
GitRepository_conf(f, path, force, cf) ==
    IF ~IsOK(cf) THEN cf
    ELSE IF HasVal(cf) /\ Exists(f, cf.val)
    THEN IF force THEN OK(Handle(path, ConfRead(f, cf.val)))
         ELSE GitRepository_version(path, ConfRead(f, cf.val),
                                    ConfGetVersion(ConfRead(f, cf.val)))
    ELSE IF ~force THEN Raise("Configuration file missing")
    ELSE OK(Handle(path, EmptyConf))

\* GitRepository(path, force): the handle, or the exception __init__ raises
GitRepository(f, path, force) ==
    IF ~(force \/ IsDir(f, path \o <<GitDirName>>)) THEN Raise("Not a Git repository")
    ELSE GitRepository_conf(f, path, force,
                            repo_file(f, Handle(path, EmptyConf), <<"config">>, FALSE).ret)

DescriptionText == "Unnamed repository; edit this file 'description' to name the repository.\n"
HeadText == "ref: refs/heads/master\n"

\* assert(d) for d the outcome of repo_dir(repo, ..., mkdir=True)
AssertDir(d) ==
    IF IsOK(d.ret) /\ ~HasVal(d.ret) THEN [fs |-> d.fs, ret |-> Raise("AssertionError")]
    ELSE d

\* one of lines 105 to 108, run when the lines before it (outcome prev) did not raise
MkSkeletonDir(prev, repo, path) ==
    IF ~IsOK(prev.ret) THEN prev
    ELSE AssertDir(repo_dir(prev.fs, repo, path, TRUE))

\* open(p, 'w') and write, for p the outcome of repo_file
WriteTo(p, data) ==
    IF ~IsOK(p.ret) THEN p
    ELSE IF ~HasVal(p.ret) THEN [fs |-> p.fs, ret |-> Raise("TypeError")]
    ELSE FsRet(WriteFile(p.fs, p.ret.val, data), RetNone)

\* with open(repo_file(repo, name), 'w') as f: f.write(data), when the lines
\* before it did not raise
WriteSkeletonFile(prev, repo, name, data) ==
    IF ~IsOK(prev.ret) THEN prev
    ELSE WriteTo(repo_file(prev.fs, repo, <<name>>, FALSE), data)

\* return repo, unless a line before it raised
ReturnRepo(prev, repo) ==
    IF IsOK(prev.ret) THEN [fs |-> prev.fs, ret |-> OK(repo)] ELSE prev

\* lines 105 to 122 of repo_create, from the outcome s0 of lines 95 to 103
Skeleton(s0, repo) ==
    ReturnRepo(
      WriteSkeletonFile(
        WriteSkeletonFile(
          WriteSkeletonFile(
            MkSkeletonDir(
              MkSkeletonDir(
                MkSkeletonDir(
                  MkSkeletonDir(s0, repo, <<"branches">>),
                  repo, <<"objects">>),
                repo, <<"refs", "tags">>),
              repo, <<"refs", "heads">>),
            repo, "description", DescriptionText),
          repo, "HEAD", HeadText),
        repo, "config", repo_default_config),
      repo)

\* lines 97 to 103 without the emptiness test of line 100
Worktree_no_empty_check(f, w) ==
    IF Exists(f, w)
    THEN IF ~IsDir(f, w) THEN [fs |-> f, err |-> "is not a directory"]
         ELSE [fs |-> f, err |-> "none"]
    ELSE Makedirs(f, w)

\* lines 97 to 103: the worktree is an empty directory, or is made
Worktree(f, w) ==
    IF Exists(f, w)
    THEN IF ~IsDir(f, w) THEN [fs |-> f, err |-> "is not a directory"]
         ELSE IF Listdir(f, w) # {} THEN [fs |-> f, err |-> "is not empty!"]
         ELSE [fs |-> f, err |-> "none"]
    ELSE Makedirs(f, w)

\* lines 97 to 122: r is the outcome of GitRepository(path, True)
repo_create_in(f, r) ==
    IF ~IsOK(r) THEN [fs |-> f, ret |-> r]
    ELSE Skeleton(FsRet(Worktree(f, r.val.worktree), RetNone), r.val)

repo_create(f, path) == repo_create_in(f, GitRepository(f, path, TRUE))

\* os.path.realpath: paths of the model are absolute and hold no links
Realpath(p) == p

\* the truth value of a str: it is not empty. A path below the root is
\* "/" followed by its components.
Truthy(p) == Len(p) + 1 > 0

RECURSIVE repo_find(_, _, _)
repo_find(f, start, required) ==
    LET path == Realpath(start)
        parent == Realpath(Parent(path))
    IN  IF Truthy(Realpath(path \o <<GitDirName>>)) THEN GitRepository(f, path, FALSE)
        ELSE IF parent = path
        THEN IF required THEN Raise("No git repository.") ELSE RetNone
        ELSE repo_find(f, parent, required)

(***************************************************************************)
(* The KVLM parser and serializer.  An OrderedDict is the sequence of its  *)
(* entries in insertion order; an entry holds its values as a sequence and *)
(* list says whether the dict holds a list or a single value.              *)
(***************************************************************************)
EmptyDict == <<>>

HasKey(dct, k) == \E i \in 1..Len(dct) : dct[i].k = k
KeyAt(dct, k) == CHOOSE i \in 1..Len(dct) : dct[i].k = k

\* dct[k] = v
DictSet(dct, k, v) ==
    IF HasKey(dct, k)
    THEN [dct EXCEPT ![KeyAt(dct, k)] = [k |-> k, list |-> FALSE, v |-> <<v>>]]
    ELSE Append(dct, [k |-> k, list |-> FALSE, v |-> <<v>>])

\* lines 321 to 326: a repeated key becomes, or extends, a list
DictAdd(dct, k, v) ==
    IF HasKey(dct, k)
    THEN [dct EXCEPT ![KeyAt(dct, k)] =
              [k |-> k, list |-> TRUE, v |-> Append(dct[KeyAt(dct, k)].v, v)]]
    ELSE DictSet(dct, k, v)

\* raw[spc+1, end]: bytes indexed by a tuple
TupleIndex(s, i, j) == Raise("TypeError")

\* key in dict: membership in the builtin type
InDictType(k) == Raise("TypeError")

\* the while loop of lines 311 to 314, entered with the value of end.  When
\* find returns -1 and raw[0] is a space the loop goes on from raw's first
\* newline; wrapped says that this has happened before, and then the loop
\* never ends
RECURSIVE kvlm_scan_end(_, _, _)
kvlm_scan_next(s, e, wrapped) ==
    IF ~IsOK(At(s, e + 1)) THEN At(s, e + 1)
    ELSE IF At(s, e + 1).val # SP THEN OK(e)
    ELSE IF e = -1 /\ wrapped THEN Raise("hang")
    ELSE kvlm_scan_end(s, e, wrapped \/ e = -1)

kvlm_scan_end(s, end, wrapped) == kvlm_scan_next(s, Find(s, NL, end + 1), wrapped)

RECURSIVE kvlm_parse(_, _, _)

\* lines 320 to 328: isin is the outcome of the membership test
kvlm_parse_store(s, dct, key, end, value, isin) ==
    IF ~IsOK(isin) THEN isin
    ELSE kvlm_parse(s, end + 1, DictAdd(dct, key, value))

\* lines 317 to 328: value is the outcome of the indexing of line 317
kvlm_parse_value(s, dct, key, end, value) ==
    IF ~IsOK(value) THEN value
    ELSE kvlm_parse_store(s, dct, key, end, Replace(value.val, <<NL, SP>>, <<SP>>),
                          InDictType(key))

\* lines 308 to 328: end is the outcome of the while loop
kvlm_parse_field(s, start, dct, spc, end) ==
    IF ~IsOK(end) THEN end
    ELSE kvlm_parse_value(s, dct, Slice(s, start, spc), end.val,
                          TupleIndex(s, spc + 1, end.val))

\* lines 302 to 328: spc and nl are the two finds
kvlm_parse_at(s, start, dct, spc, nl) ==
    IF spc < 0 \/ nl < spc
    THEN IF nl = start THEN OK(DictSet(dct, <<>>, SliceFrom(s, start + 1)))
         ELSE Raise("AssertionError")
    ELSE kvlm_parse_field(s, start, dct, spc, kvlm_scan_end(s, start, FALSE))

kvlm_parse(s, start, dct) ==
    kvlm_parse_at(s, start, dct, Find(s, SP, start), Find(s, NL, start))

\* the inner loop of lines 346 and 347 over the values of one key
RECURSIVE kvlm_serialize_values(_, _)
kvlm_serialize_values(k, vs) ==
    IF vs = <<>> THEN <<>>
    ELSE k \o <<SP>> \o Replace(Head(vs), <<NL>>, <<NL, SP>>) \o <<NL>>
         \o kvlm_serialize_values(k, Tail(vs))

\* the loop of lines 336 to 347 over the keys
RECURSIVE kvlm_serialize_fields(_)
kvlm_serialize_fields(dct) ==
    IF dct = <<>> THEN <<>>
    ELSE IF Head(dct).k = <<>> THEN kvlm_serialize_fields(Tail(dct))
    ELSE kvlm_serialize_values(Head(dct).k, Head(dct).v) \o kvlm_serialize_fields(Tail(dct))

kvlm_serialize(kvlm) ==
    IF HasKey(kvlm, <<>>)
    THEN OK(kvlm_serialize_fields(kvlm) \o <<NL>> \o kvlm[KeyAt(kvlm, <<>>)].v[1])
    ELSE Raise("KeyError")

(***************************************************************************)
(* hashlib.sha1 and zlib.                                                  *)
(***************************************************************************)
\* the byte values the model uses, in a fixed order
Alphabet ==
    <<NUL, NL, SP>> \o Digits
    \o <<"a", "b", "c", "d", "e", "f", "g", "h", "i", "j", "k", "l", "m",
         "n", "o", "p", "q", "r", "s", "t", "u", "v", "w", "x", "y", "z">>
CodeOf == [c \in {Alphabet[i] : i \in 1..Len(Alphabet)} |->
              CHOOSE i \in 1..Len(Alphabet) : Alphabet[i] = c]
Code(c) == CodeOf[c]

RECURSIVE Pow16(_)
Pow16(n) == IF n = 0 THEN 1 ELSE 16 * Pow16(n - 1)

\* a digest has the two digits of the directory and RestLen more
HexLen == 2 + RestLen

\* the number of digests
Digests == Pow16(HexLen)

\* the digest as a number: a deterministic mix of every byte and its place
RECURSIVE Digest(_)
Digest(s) ==
    IF s = <<>> THEN 7
    ELSE (31 * Digest(SubSeq(s, 1, Len(s) - 1)) + Code(s[Len(s)])) % Digests

RECURSIVE Hex(_, _)
Hex(n, len) ==
    IF len = 0 THEN <<>>
    ELSE Hex(n \div 16, len - 1) \o <<HexDigits[(n % 16) + 1]>>

\* hashlib.sha1(data).hexdigest()
Sha1Hex(s) == Hex(Digest(s), HexLen)

\* the length of the run of equal bytes s starts with
RunLen(s) ==
    CHOOSE k \in 1..Len(s) :
        /\ \A i \in 1..k : s[i] = s[1]
        /\ k = Len(s) \/ s[k + 1] # s[1]

\* zlib.compress: lossless, here by run lengths
RECURSIVE zlib_compress(_)
zlib_compress(s) ==
    IF s = <<>> THEN <<>>
    ELSE <<[n |-> RunLen(s), b |-> s[1]]>> \o zlib_compress(SubSeq(s, RunLen(s) + 1, Len(s)))

RECURSIVE Inflate(_)
Inflate(z) ==
    IF z = <<>> THEN <<>>
    ELSE [i \in 1..z[1].n |-> z[1].b] \o Inflate(Tail(z))

\* zlib.decompress: an empty stream is an error
zlib_decompress(z) == IF z = <<>> THEN Raise("zlib.error") ELSE OK(Inflate(z))

(***************************************************************************)
(* The object classes.  An object is a record of its class, its repo and   *)
(* the attributes set on it (blobdata, kvlm).                              *)
(***************************************************************************)
B_blob == <<"b", "l", "o", "b">>
B_commit == <<"c", "o", "m", "m", "i", "t">>
B_tree == <<"t", "r", "e", "e">>
B_tag == <<"t", "a", "g">>

\* the class attribute fmt
HasFmt(obj) == obj.cls \in {"GitCommit", "GitBlob"}
Fmt(obj) == IF obj.cls = "GitCommit" THEN B_commit ELSE B_blob

\* GitCommit.deserialize: parsed is the outcome of kvlm_parse(data)
GitCommit_deserialize(repo, parsed) ==
    IF IsOK(parsed) THEN OK([cls |-> "GitCommit", repo |-> repo, kvlm |-> parsed.val])
    ELSE parsed

\* c(repo, data): GitObject.__init__ with data, which deserializes it
New(cls, repo, data) ==
    IF cls = "GitBlob" THEN OK([cls |-> cls, repo |-> repo, blobdata |-> data])
    ELSE IF cls = "GitCommit" THEN GitCommit_deserialize(repo, kvlm_parse(data, 0, EmptyDict))
    ELSE Raise("Unimplemented!")

\* c(repo): no data, nothing deserialized
NewEmpty(cls, repo) == [cls |-> cls, repo |-> repo]

\* obj.serialize()
Serialize(obj) ==
    IF obj.cls = "GitBlob"
    THEN IF "blobdata" \in DOMAIN obj THEN OK(obj.blobdata) ELSE Raise("AttributeError")
    ELSE IF obj.cls = "GitCommit"
    THEN IF "kvlm" \in DOMAIN obj THEN kvlm_serialize(obj.kvlm) ELSE Raise("AttributeError")
    ELSE Raise("Unimplemented!")

(***************************************************************************)
(* The object codec.                                                       *)
(***************************************************************************)
\* the mutant of WithHeader whose length counts the NUL too
WithHeader_counts_nul(fmt, data) == fmt \o <<SP>> \o DecStr(Len(data) + 1) \o <<NUL>> \o data

\* line 252: the header and the data
WithHeader(fmt, data) == fmt \o <<SP>> \o DecStr(Len(data)) \o <<NUL>> \o data

\* the arguments of repo_file in line 259 (and of repo_path in line 218)
ObjectPath(sha) == <<"objects", Str(Slice(sha, 0, 2)), Str(SliceFrom(sha, 2))>>

\* the mutant of object_write_file that opens the file with mode 'xb'
object_write_file_exclusive(path, result) ==
    IF ~IsOK(path.ret) THEN path
    ELSE IF ~HasVal(path.ret) THEN [fs |-> path.fs, ret |-> Raise("TypeError")]
    ELSE IF Exists(path.fs, path.ret.val) THEN [fs |-> path.fs, ret |-> Raise("FileExistsError")]
    ELSE FsRet(WriteFile(path.fs, path.ret.val, zlib_compress(result)),
               OK(Sha1Hex(result)))

\* lines 262 and 263: path is the outcome of repo_file
object_write_file(path, result) ==
    IF ~IsOK(path.ret) THEN path
    ELSE IF ~HasVal(path.ret) THEN [fs |-> path.fs, ret |-> Raise("TypeError")]
    ELSE FsRet(WriteFile(path.fs, path.ret.val, zlib_compress(result)),
               OK(Sha1Hex(result)))

\* the mutant of object_store that writes whatever actually_write says
object_store_always(f, obj, result, actually_write) ==
    IF ~IsRepo(obj.repo) THEN [fs |-> f, ret |-> OK(Sha1Hex(result))]
    ELSE object_write_file(repo_file(f, obj.repo, ObjectPath(Sha1Hex(result)), TRUE), result)

\* lines 255 to 265: result is the header and the data
object_store(f, obj, result, actually_write) ==
    IF ~actually_write THEN [fs |-> f, ret |-> OK(Sha1Hex(result))]
    ELSE IF ~IsRepo(obj.repo) THEN [fs |-> f, ret |-> Raise("AttributeError")]
    ELSE object_write_file(repo_file(f, obj.repo, ObjectPath(Sha1Hex(result)), actually_write),
                           result)

\* lines 252 to 265: data is the outcome of obj.serialize()
object_write_data(f, obj, data, actually_write) ==
    IF ~IsOK(data) THEN [fs |-> f, ret |-> data]
    ELSE IF ~HasFmt(obj) THEN [fs |-> f, ret |-> Raise("AttributeError")]
    ELSE object_store(f, obj, WithHeader(Fmt(obj), data.val), actually_write)

\* object_write(obj, actually_write): the filesystem after it and its outcome
object_write(f, obj, actually_write) ==
    object_write_data(f, obj, Serialize(obj), actually_write)

\* lines 277 to 286: the class object_hash picks for fmt
ClassOf(fmt) ==
    IF fmt = B_commit THEN "GitCommit"
    ELSE IF fmt = B_tree THEN "GitTree"
    ELSE IF fmt = B_tag THEN "GitTag"
    ELSE IF fmt = B_blob THEN "GitBlob"
    ELSE "unknown"

\* line 288: obj is the outcome of the constructor; repo is passed as actually_write
object_hash_write(f, obj, repo) ==
    IF ~IsOK(obj) THEN [fs |-> f, ret |-> obj]
    ELSE object_write(f, obj.val, IsRepo(repo))

\* object_hash(fd, fmt, repo), data being fd.read()
object_hash(f, data, fmt, repo) ==
    IF ClassOf(fmt) = "unknown" THEN [fs |-> f, ret |-> Raise("Unknown type")]
    ELSE object_hash_write(f, New(ClassOf(fmt), repo, data), repo)

\* the mutant of object_read_size that accepts one byte more than declared
object_read_size_lax(repo, s, x, y, size) ==
    IF ~IsOK(size) THEN size
    ELSE IF size.val # Len(s) - y - 1 /\ size.val # Len(s) - y - 2
    THEN Raise("Malformed object")
    ELSE IF ClassOf(Slice(s, 0, x)) = "unknown" THEN Raise("Unknown type")
    ELSE New(ClassOf(Slice(s, 0, x)), repo, SliceFrom(s, y + 1))

\* lines 230 to 242: x and y are the two finds, size the outcome of int()
object_read_size(repo, s, x, y, size) ==
    IF ~IsOK(size) THEN size
    ELSE IF size.val # Len(s) - y - 1 THEN Raise("Malformed object")
    ELSE IF ClassOf(Slice(s, 0, x)) = "unknown" THEN Raise("Unknown type")
    ELSE New(ClassOf(Slice(s, 0, x)), repo, SliceFrom(s, y + 1))

\* lines 228 to 242: x is the place of the first space
object_read_header(repo, s, x, y) ==
    object_read_size(repo, s, x, y, ParseInt(Slice(s, x, y)))

\* bytes.rfind(c): the highest index holding c, else -1
FindLast(s, c) ==
    IF \E i \in 1..Len(s) : s[i] = c
    THEN (CHOOSE i \in 1..Len(s) : s[i] = c /\ \A j \in (i + 1)..Len(s) : s[j] # c) - 1
    ELSE -1

\* the mutant of object_read_raw that looks for the last NUL, not the first
object_read_raw_rfind(repo, s) ==
    IF ~IsOK(s) THEN s
    ELSE object_read_header(repo, s.val, Find(s.val, SP, 0), FindLast(s.val, NUL))

\* lines 224 to 242: s is the outcome of zlib.decompress
object_read_raw(repo, s) ==
    IF ~IsOK(s) THEN s
    ELSE object_read_header(repo, s.val, Find(s.val, SP, 0),
                            Find(s.val, NUL, Find(s.val, SP, 0)))

\* object_read(repo, sha)
object_read(f, repo, sha) ==
    IF ~IsRepo(repo) THEN Raise("AttributeError")
    ELSE IF IsDir(f, repo_path(repo, ObjectPath(sha))) THEN Raise("IsADirectoryError")
    ELSE IF ~IsFile(f, repo_path(repo, ObjectPath(sha))) THEN Raise("FileNotFoundError")
    ELSE object_read_raw(repo, zlib_decompress(f[repo_path(repo, ObjectPath(sha))].data))

(***************************************************************************)
(* Spec: object_write, object_hash and object_read on the repository that  *)
(* repo_create makes at /w in an empty filesystem.                         *)
(***************************************************************************)
RootOnly == [q \in {<<>>} |-> Dir]

BaseRepo == repo_create(RootOnly, <<"w">>)
\* the handle repo_create returned
H == BaseRepo.ret.val

\* blob payloads: the two bytes of the header's syntax in turn, from either
Alternating(first, second, n) == [i \in 1..n |-> IF i % 2 = 1 THEN first ELSE second]
Payloads ==
    {Alternating(SP, NUL, n) : n \in 0..MaxPayload}
    \cup {Alternating(NUL, SP, n) : n \in 0..MaxPayload}

\* a message-only record, a record with one key, and bytes that are no record
KvlmData == {<<NL, "m">>, <<"k", SP, "v", NL, NL, "m">>, <<"m">>}

Field(k, v) == [k |-> k, list |-> FALSE, v |-> <<v>>]

\* objects built by a caller: constructed from data, constructed empty, and
\* commits whose kvlm the caller filled in
Blobs == {[cls |-> "GitBlob", repo |-> H, blobdata |-> d] : d \in Payloads}
OtherObjects ==
    {[cls |-> "GitBlob", repo |-> NoRepo, blobdata |-> <<SP>>],
     NewEmpty("GitBlob", H), NewEmpty("GitCommit", H),
     NewEmpty("GitTree", H), NewEmpty("GitTag", H),
     [cls |-> "GitCommit", repo |-> H, kvlm |-> <<Field(<<>>, <<"m">>)>>],
     [cls |-> "GitCommit", repo |-> H,
      kvlm |-> <<Field(<<"k">>, <<"v", NL, "w">>), Field(<<>>, <<"m">>)>>],
     [cls |-> "GitCommit", repo |-> H, kvlm |-> <<Field(<<"k">>, <<"v">>)>>]}
Objects == Blobs \cup OtherObjects

\* what object_hash is called with: fd's content and fmt
HashInputs ==
    {[data |-> d, fmt |-> B_blob] : d \in {q \in Payloads : Len(q) <= 1}}
    \cup {[data |-> d, fmt |-> B_commit] : d \in KvlmData}
    \cup {[data |-> <<NL, "m">>, fmt |-> f] : f \in {B_tag, B_tree, <<"x">>}}

\* the outcome of a dry run of each object: its identifier, when it has one
DryRun == [o \in Objects |-> object_write(RootOnly, o, FALSE).ret]
AllIds == {DryRun[o].val : o \in {q \in Objects : HasVal(DryRun[q])}}

\* the object files of the store
StoredFiles(f) == {q \in DOMAIN f : Len(q) = 5 /\ SubSeq(q, 1, 3) = H.gitdir \o <<"objects">>}
StoredIds(f) == {sha \in AllIds : IsFile(f, repo_path(H, ObjectPath(sha)))}

\* whether obj's file is in the store already
Stored(f, obj) ==
    /\ HasVal(DryRun[obj])
    /\ IsRepo(obj.repo)
    /\ Exists(f, repo_path(obj.repo, ObjectPath(DryRun[obj].val)))

Init ==
    /\ fs = BaseRepo.fs
    /\ call = [op |-> "none"]
    /\ ret = RetNone
    /\ raw = <<>>
    /\ kv = RetNone
    /\ pc = <<>>
    /\ loc = <<>>

\* the step a call makes: c the call, r its [fs, ret]
Does(c, r) ==
    /\ fs' = r.fs
    /\ ret' = r.ret
    /\ call' = c
    /\ UNCHANGED <<raw, kv, pc, loc>>

\* a call is taken when it leaves at most MaxWrites objects in the store
Room(r) == Cardinality(StoredFiles(r.fs)) <= MaxWrites

ObjectWrite ==
    \E obj \in Objects, persist \in BOOLEAN :
        /\ Room(object_write(fs, obj, persist))
        /\ Does([op |-> "object_write", obj |-> obj, persist |-> persist,
                 existed |-> Stored(fs, obj)],
                object_write(fs, obj, persist))

ObjectHash ==
    \E in \in HashInputs, repo \in {H, NoRepo} :
        /\ Room(object_hash(fs, in.data, in.fmt, repo))
        /\ Does([op |-> "object_hash", data |-> in.data, fmt |-> in.fmt, repo |-> repo],
                object_hash(fs, in.data, in.fmt, repo))

ObjectRead ==
    \E sha \in StoredIds(fs) \cup {r.val : r \in {q \in {ret} : HasVal(q) /\ call.op # "object_read"}} :
        Does([op |-> "object_read", sha |-> sha],
             [fs |-> fs, ret |-> object_read(fs, H, sha)])

Next == ObjectWrite \/ ObjectHash \/ ObjectRead

Spec == Init /\ [][Next]_vars

(* C2: a blob written with persist=true is written without error, and     *)
(* object_read of the identifier the write returned gives back a blob      *)
(* whose payload is the payload written.                                   *)
C2_BlobRoundTrip ==
    [][(/\ call.op = "object_write"
        /\ call.persist
        /\ call.obj.cls = "GitBlob"
        /\ "blobdata" \in DOMAIN call.obj
        /\ IsRepo(call.obj.repo))
       => /\ HasVal(ret)
          /\ (call'.op = "object_read" /\ call'.sha = ret.val)
               => /\ HasVal(ret')
                  /\ ret'.val.cls = "GitBlob"
                  /\ Serialize(ret'.val) = OK(call.obj.blobdata)]_vars

\* a blob whose payload holds both bytes of the header's syntax was read back
C2_Witness_ReadBack ==
    /\ call.op = "object_read"
    /\ HasVal(ret)
    /\ ret.val.cls = "GitBlob"
    /\ ret.val.blobdata = <<SP, NUL>>

(* C3: a write with persist=false, and object_hash without a repository,   *)
(* leave the filesystem as it was; and the same object written once with   *)
(* and once without persist has the same outcome, the same identifier.     *)
C3_DryRun ==
    [][/\ (call'.op = "object_write" /\ ~call'.persist) => fs' = fs
       /\ (call'.op = "object_hash" /\ ~IsRepo(call'.repo)) => fs' = fs
       /\ (/\ call.op = "object_write"
           /\ call'.op = "object_write"
           /\ call'.obj = call.obj
           /\ call'.persist # call.persist
           /\ IsRepo(call.obj.repo))
          => ret' = ret]_vars

\* a dry run returned the identifier under which the object is stored already
C3_Witness_DryRunOfStored ==
    /\ call.op = "object_write"
    /\ ~call.persist
    /\ call.existed
    /\ HasVal(ret)
    /\ IsFile(fs, repo_path(H, ObjectPath(ret.val)))

(* C4: the same object written with persist=true a second time returns     *)
(* the same identifier without error and leaves the filesystem as the      *)
(* first write left it.                                                    *)
C4_Idempotent ==
    [][(/\ call.op = "object_write"
        /\ call.persist
        /\ HasVal(ret)
        /\ call'.op = "object_write"
        /\ call'.persist
        /\ call'.obj = call.obj)
       => /\ ret' = ret
          /\ fs' = fs]_vars

\* an object was written whose file was in the store already
C4_Witness_SecondWrite ==
    /\ call.op = "object_write"
    /\ call.persist
    /\ call.existed
    /\ HasVal(ret)

\* the bytes of a stored file are a header and a payload of the declared length
WellFormedObject(s) ==
    \E kind \in {B_blob, B_commit, B_tree, B_tag}, n \in 0..Len(s) :
        s = kind \o <<SP>> \o DecStr(n) \o <<NUL>> \o SubSeq(s, Len(s) - n + 1, Len(s))

StoreOK(f) ==
    \A q \in StoredFiles(f) :
        /\ IsFile(f, q)
        /\ IsOK(zlib_decompress(f[q].data))
        /\ WellFormedObject(zlib_decompress(f[q].data).val)
        /\ \E sha \in StoredIds(f) :
               /\ q = repo_path(H, ObjectPath(sha))
               /\ sha = Sha1Hex(zlib_decompress(f[q].data).val)
               /\ object_read(f, H, sha) # Raise("Malformed object")

(* C10: every file of the store holds the compressed form of a header and  *)
(* a payload of the declared length, at the path its hash gives, so that   *)
(* object_read of it never raises "Malformed object"; and a write that     *)
(* raises leaves the filesystem as it was.                                 *)
C10_StoreInvariant ==
    /\ []StoreOK(fs)
    /\ [][(call'.op \in {"object_write", "object_hash"} /\ ~IsOK(ret')) => fs' = fs]_vars

\* a write raised while the store held two objects
C10_Witness_FailedWrite ==
    /\ call.op = "object_write"
    /\ call.persist
    /\ ret = Raise("Unimplemented!")
    /\ Cardinality(StoredFiles(fs)) >= 2

(***************************************************************************)
(* SpecRead: object_read of one object file that another writer put in the *)
(* store; raw holds the bytes behind the file.                             *)
(***************************************************************************)
KindNames == {B_blob, B_commit, B_tree, B_tag, <<"x">>, <<>>}

\* payloads of a given length: a message-only record, and the header's bytes
MessagePayload(n) == [i \in 1..n |-> IF i = 1 THEN NL ELSE "m"]
StoredPayloads(n) == {MessagePayload(n), Alternating(NUL, SP, n)}

\* a header declaring n, followed by n - 1, n or n + 1 bytes
Lengths == {[declared |-> n, len |-> m] : n \in 0..MaxDeclared, m \in 0..(MaxDeclared + 1)}
StoredBuffers ==
    UNION {{kind \o <<SP>> \o DecStr(l.declared) \o <<NUL>> \o d : d \in StoredPayloads(l.len)} :
              kind \in KindNames,
              l \in {q \in Lengths : q.len \in {q.declared - 1, q.declared, q.declared + 1}}}

\* the store with the one file, at the path the digest of its bytes gives
Placed(buf) ==
    Put(Put(BaseRepo.fs, {repo_path(H, Parent(ObjectPath(Sha1Hex(buf))))}, Dir),
        {repo_path(H, ObjectPath(Sha1Hex(buf)))}, File(zlib_compress(buf)))

InitRead ==
    /\ raw \in StoredBuffers
    /\ fs = Placed(raw)
    /\ call = [op |-> "none"]
    /\ ret = RetNone
    /\ kv = RetNone
    /\ pc = <<>>
    /\ loc = <<>>

ObjectReadStored ==
    /\ fs' = fs
    /\ call' = [op |-> "object_read", sha |-> Sha1Hex(raw)]
    /\ ret' = object_read(fs, H, Sha1Hex(raw))
    /\ UNCHANGED <<raw, kv, pc, loc>>

NextRead == ObjectReadStored

SpecRead == InitRead /\ [][NextRead]_vars

\* s is kind, a space, n in decimal, a NUL and then len more bytes
Declares(s, kind, n, len) ==
    /\ Len(s) = Len(kind) + Len(DecStr(n)) + 2 + len
    /\ SubSeq(s, 1, Len(kind) + Len(DecStr(n)) + 2) = kind \o <<SP>> \o DecStr(n) \o <<NUL>>

(* C5: object_read of a stored buffer whose header declares N and that     *)
(* holds N + 1 or N - 1 bytes after the NUL raises "Malformed object",     *)
(* whatever the kind name and N.                                           *)
C5_Malformed ==
    call.op = "object_read" =>
        \A kind \in KindNames, n \in 0..(MaxDeclared + 1) :
            (Declares(raw, kind, n, n + 1) \/ (n > 0 /\ Declares(raw, kind, n, n - 1)))
                => ret = Raise("Malformed object")

\* a header of two digits with one byte too many was read and refused
C5_Witness_TwoDigits ==
    /\ call.op = "object_read"
    /\ Declares(raw, B_blob, 10, 11)
    /\ ret = Raise("Malformed object")

(* C9: object_read of a stored object whose header kind is 'tag' returns a  *)
(* GitTag object, parsed by the KVLM parser, whose serialize gives back    *)
(* the payload; it does not raise "Unimplemented!".                        *)
C9_TagLikeCommit ==
    (call.op = "object_read" /\ \E n \in 1..MaxDeclared : raw = WithHeader(B_tag, MessagePayload(n)))
        => /\ HasVal(ret)
           /\ ret.val.cls = "GitTag"
           /\ Serialize(ret.val) = OK(SliceFrom(raw, Find(raw, NUL, 0) + 1))

(***************************************************************************)
(* SpecConc: two object_write calls with persist=true, interleaved line by *)
(* line.                                                                   *)
(***************************************************************************)
Writers == {1, 2}

\* two blobs whose identifiers share the directory, and one elsewhere
ConcObjects == {[cls |-> "GitBlob", repo |-> H, blobdata |-> d] : d \in {<<SP>>, <<NUL>>, <<>>}}

InitConc ==
    /\ fs = BaseRepo.fs
    /\ pc = [w \in Writers |-> "249"]
    /\ loc \in [Writers -> {[obj |-> o] : o \in ConcObjects}]
    /\ call = [op |-> "none"]
    /\ ret = RetNone
    /\ raw = <<>>
    /\ kv = RetNone

\* the directory and the file of writer w's object
DirOf(w) == repo_path(loc[w].obj.repo, Parent(ObjectPath(loc[w].sha)))
FileOf(w) == repo_path(loc[w].obj.repo, ObjectPath(loc[w].sha))

Goes(w, line, l) ==
    /\ pc' = [pc EXCEPT ![w] = line]
    /\ loc' = [loc EXCEPT ![w] = l]
    /\ UNCHANGED <<call, ret, raw, kv>>

\* lines 249 to 255: data, result and sha
WSerialize(w) ==
    /\ pc[w] = "249"
    /\ fs' = fs
    /\ Goes(w, "79", [obj |-> loc[w].obj,
                      result |-> WithHeader(Fmt(loc[w].obj), Serialize(loc[w].obj).val),
                      sha |-> Sha1Hex(WithHeader(Fmt(loc[w].obj), Serialize(loc[w].obj).val))])

\* repo_dir, lines 79 to 81: the directory is there
WDirExists(w) ==
    /\ pc[w] = "79"
    /\ IsDir(fs, DirOf(w))
    /\ fs' = fs
    /\ Goes(w, "262", loc[w])

\* repo_dir, lines 79 and 85: the directory is not there
WDirAbsent(w) ==
    /\ pc[w] = "79"
    /\ ~Exists(fs, DirOf(w))
    /\ fs' = fs
    /\ Goes(w, "86", loc[w])

\* repo_dir, line 86: os.makedirs
WMakedirs(w) ==
    /\ pc[w] = "86"
    /\ fs' = Makedirs(fs, DirOf(w)).fs
    /\ IF Makedirs(fs, DirOf(w)).err = "none" THEN Goes(w, "262", loc[w])
       ELSE Goes(w, "raised", [obj |-> loc[w].obj, ret |-> Raise(Makedirs(fs, DirOf(w)).err)])

\* line 262: open(path, 'wb') creates the file or empties it
WOpen(w) ==
    /\ pc[w] = "262"
    /\ fs' = OpenTrunc(fs, FileOf(w), <<>>).fs
    /\ Goes(w, "263", loc[w])

\* line 263, and the end of the with block
WWrite(w) ==
    /\ pc[w] = "263"
    /\ fs' = Put(fs, {FileOf(w)}, File(zlib_compress(loc[w].result)))
    /\ Goes(w, "265", loc[w])

\* line 265: return sha
WReturn(w) ==
    /\ pc[w] = "265"
    /\ fs' = fs
    /\ Goes(w, "returned", [obj |-> loc[w].obj, ret |-> OK(loc[w].sha)])

NextConc ==
    \E w \in Writers :
        \/ WSerialize(w)
        \/ WDirExists(w)
        \/ WDirAbsent(w)
        \/ WMakedirs(w)
        \/ WOpen(w)
        \/ WWrite(w)
        \/ WReturn(w)

SpecConc == InitConc /\ [][NextConc]_vars

(* C8: under any interleaving of two object_write calls with persist=true  *)
(* both calls return their identifiers, neither raises; and once both have *)
(* returned each file holds the compressed bytes of its object.            *)
C8_ConcurrentWriters ==
    \A w \in Writers :
        pc[w] \in {"returned", "raised"} =>
            /\ loc[w].ret = OK(DryRun[loc[w].obj].val)
            /\ (\A v \in Writers : pc[v] = "returned") =>
                   fs[repo_path(H, ObjectPath(loc[w].ret.val))]
                       = File(zlib_compress(WithHeader(B_blob, loc[w].obj.blobdata)))

(***************************************************************************)
(* SpecKVLM: kvlm_parse of a well-formed record, then kvlm_serialize of    *)
(* what it returned.                                                       *)
(***************************************************************************)
Keys == {<<"k">>, <<"p">>}
Words == {<<"v">>, <<"w">>}
Messages == {<<>>, <<"m">>, <<"m", SP, "m", NL>>}

\* the lines of one value, folded: each line after the first starts with a space
RECURSIVE Folded(_)
Folded(lines) ==
    IF Len(lines) = 1 THEN lines[1]
    ELSE lines[1] \o <<NL, SP>> \o Folded(Tail(lines))

RECURSIVE FieldLines(_)
FieldLines(fields) ==
    IF fields = <<>> THEN <<>>
    ELSE fields[1].k \o <<SP>> \o Folded(fields[1].lines) \o <<NL>> \o FieldLines(Tail(fields))

\* a record: its fields, a blank line, its message
Record(fields, msg) == FieldLines(fields) \o <<NL>> \o msg

FieldSet == {[k |-> k, lines |-> l] : k \in Keys, l \in UNION {[1..n -> Words] : n \in 1..MaxLines}}
WellFormedRecords ==
    {Record(fields, msg) : fields \in UNION {[1..n -> FieldSet] : n \in 0..MaxFields},
                           msg \in Messages}

InitKVLM ==
    /\ raw \in WellFormedRecords
    /\ kv = RetNone
    /\ call = [op |-> "none"]
    /\ ret = RetNone
    /\ fs = RootOnly
    /\ pc = <<>>
    /\ loc = <<>>

KvlmParse ==
    /\ call.op = "none"
    /\ kv' = kvlm_parse(raw, 0, EmptyDict)
    /\ call' = [op |-> "kvlm_parse"]
    /\ UNCHANGED <<fs, ret, raw, pc, loc>>

KvlmSerialize ==
    /\ call.op = "kvlm_parse"
    /\ HasVal(kv)
    /\ ret' = kvlm_serialize(kv.val)
    /\ call' = [op |-> "kvlm_serialize"]
    /\ UNCHANGED <<fs, raw, kv, pc, loc>>

NextKVLM == KvlmParse \/ KvlmSerialize

SpecKVLM == InitKVLM /\ [][NextKVLM]_vars

(* C1: for every well-formed record raw, kvlm_parse(raw) returns a mapping *)
(* and kvlm_serialize of it is raw, byte for byte.                         *)
C1_RoundTrip ==
    /\ call.op = "kvlm_parse" => HasVal(kv)
    /\ call.op = "kvlm_serialize" => ret = OK(raw)

(***************************************************************************)
(* SpecRepo: repo_create, repo_find and GitRepository over a small tree.   *)
(***************************************************************************)
\* the trees a behaviour starts from: none holds a control directory; one
\* holds a regular file of the control directory's name
InitialTrees ==
    {RootOnly,
     Put(RootOnly, {<<"w">>}, Dir),
     Put(Put(RootOnly, {<<"w">>}, Dir), {<<"w", GitDirName>>}, File("text"))}

\* the paths handed to repo_create and GitRepository
WorktreePaths == {<<"w">>, <<"w", "s">>, <<"w", "f">>, <<"w", "f", "x">>}
\* the directories the owner of a working tree makes in it
UserDirs == {<<"w", "s">>, <<"w", "s", "t">>}
\* the regular files the owner writes in it
UserFiles == {<<"w", "f">>}
\* the paths repo_find starts from
StartPaths == {<<>>, <<"w">>, <<"w", "s">>, <<"w", "s", "t">>}

Idle == [op |-> "none", path |-> <<>>, flag |-> FALSE]

InitRepo ==
    /\ fs \in InitialTrees
    /\ call = Idle
    /\ ret = RetNone
    /\ raw = <<>>
    /\ kv = RetNone
    /\ pc = <<>>
    /\ loc = <<>>

\* the owner of the working tree makes a directory in it
Mkdir ==
    \E p \in UserDirs :
        /\ IsDir(fs, Parent(p))
        /\ ~Exists(fs, p)
        /\ fs' = Put(fs, {p}, Dir)
        /\ call' = [op |-> "mkdir", path |-> p, flag |-> FALSE]
        /\ ret' = RetNone
        /\ UNCHANGED <<raw, kv, pc, loc>>

\* the owner of the working tree writes a file in it
Touch ==
    \E p \in UserFiles :
        /\ IsDir(fs, Parent(p))
        /\ ~Exists(fs, p)
        /\ fs' = Put(fs, {p}, File("text"))
        /\ call' = [op |-> "touch", path |-> p, flag |-> FALSE]
        /\ ret' = RetNone
        /\ UNCHANGED <<raw, kv, pc, loc>>

RepoCreate ==
    \E p \in WorktreePaths :
        LET r == repo_create(fs, p)
        IN  /\ fs' = r.fs
            /\ call' = [op |-> "repo_create", path |-> p, flag |-> FALSE]
            /\ ret' = r.ret
            /\ UNCHANGED <<raw, kv, pc, loc>>

RepoFind ==
    \E p \in StartPaths, required \in BOOLEAN :
        /\ fs' = fs
        /\ call' = [op |-> "repo_find", path |-> p, flag |-> required]
        /\ ret' = repo_find(fs, p, required)
        /\ UNCHANGED <<raw, kv, pc, loc>>

RepoOpen ==
    \E p \in WorktreePaths :
        /\ fs' = fs
        /\ call' = [op |-> "GitRepository", path |-> p, flag |-> FALSE]
        /\ ret' = GitRepository(fs, p, FALSE)
        /\ UNCHANGED <<raw, kv, pc, loc>>

NextRepo == Mkdir \/ Touch \/ RepoCreate \/ RepoFind \/ RepoOpen

SpecRepo == InitRepo /\ [][NextRepo]_vars

\* the worktrees at or above p whose control directory exists
ReposAbove(f, p) == {q \in Prefixes(p) : IsDir(f, q \o <<GitDirName>>)}
Nearest(S) == CHOOSE q \in S : \A r \in S : Len(r) <= Len(q)

(* C6: repo_find returns the handle of the nearest ancestor (the start      *)
(* itself included) that holds a control directory; with none up to the    *)
(* root it raises when required and returns None otherwise.                *)
C6_RepoFindWalksUp ==
    call.op = "repo_find" =>
        LET above == ReposAbove(fs, call.path)
        IN  IF above # {}
            THEN HasVal(ret) /\ ret.val.worktree = Nearest(above)
            ELSE IF call.flag
            THEN ret.err \in {"No git repository.", "Not a Git repository"}
            ELSE ret = RetNone

\* what repo_create adds to a tree at worktree w
SkeletonOf(w) ==
    LET g == w \o <<".git">>
    IN  [dirs |-> {g, g \o <<"branches">>, g \o <<"objects">>, g \o <<"refs">>,
                   g \o <<"refs", "tags">>, g \o <<"refs", "heads">>},
         files |-> {g \o <<"description">>, g \o <<"HEAD">>, g \o <<"config">>}]

CreatedExactly(f, g, w) ==
    LET sk == SkeletonOf(w)
        new == DOMAIN g \ DOMAIN f
    IN  /\ new = (sk.dirs \cup sk.files) \cup (Prefixes(w) \ DOMAIN f)
        /\ \A q \in DOMAIN f : g[q] = f[q]
        /\ \A q \in sk.dirs \cup Prefixes(w) : g[q].kind = "dir"
        /\ \A q \in sk.files : g[q].kind = "file"
        /\ g[w \o <<".git", "HEAD">>].data = "ref: refs/heads/master\n"
        /\ ParseInt(g[w \o <<".git", "config">>].data.core.repositoryformatversion) = OK(0)

\* no regular file lies on the way to w
Creatable(f, w) == \A q \in Prefixes(w) : ~IsFile(f, q)

====
